---- MODULE Spec2Model ----
(***************************************************************************)
(* Model of src/main.py: the Slack slash-command webhook (slack_commands), *)
(* the background unit of work it starts (process_and_post_result) and the *)
(* Genie conversation lifecycle it drives (call_genie_api,                  *)
(* start_genie_conversation, poll_genie_message,                            *)
(* execute_message_attachment_query).                                       *)
(*                                                                          *)
(* Every remote call (requests.post / requests.get / chat_postMessage) is   *)
(* one step whose outcome is chosen by the environment; time.sleep is a     *)
(* suspension point of its own.  Python strings built with f-strings are    *)
(* tuples of their parts; Python's None is the value None below.            *)
(***************************************************************************)
EXTENDS Integers, Sequences, FiniteSets, TLC

\* ---------------------------------------------------------------- bounds
\* number of slash-command requests that may arrive
NumReq == 2
\* largest value of poll_genie_message's parameter max_attempts explored when
\* several units of work run concurrently (specification SpecConcurrent)
MaxBudget == 2

\* ------------------------------------------------------ program constants
\* poll_genie_message(..., max_attempts=30, delay=2)
DefaultMaxAttempts == 30
delay == 2

Req == 1..NumReq

None == "<None>"
\* str(x) as used by the f-strings of the program
Str(v) == IF v = None THEN "None" ELSE v

\* os.getenv('COMMAND', '/bake')
COMMAND == "/bake"
Commands == {COMMAND, "/other"}
\* outcome of signature_verifier.is_valid: True, False, or an exception
Signatures == {"valid", "invalid", "raises"}
\* request.form: text and channel_id of the command
Forms == {[text |-> "q1", channel_id |-> "C1"], [text |-> "q2", channel_id |-> "C2"]}

\* ------------------------------------------------- remote status messages
Terminal == {"COMPLETED", "FAILED", "CANCELLED"}
\* the in-progress list without its latest entry
InProgress_short == {"IN_PROGRESS", "PENDING", "FILTERING_CONTEXT", "EXECUTING_QUERY",
                     "ASKING_AI"}
InProgress == {"IN_PROGRESS", "PENDING", "FILTERING_CONTEXT", "EXECUTING_QUERY",
               "ASKING_AI", "PENDING_WAREHOUSE"}
\* the status field of the bodies the status endpoint may answer with: the
\* statuses the program lists, one it does not list, and no status field
ServiceStatuses ==
    {"COMPLETED", "FAILED", "CANCELLED", "IN_PROGRESS", "PENDING", "FILTERING_CONTEXT",
     "EXECUTING_QUERY", "ASKING_AI", "PENDING_WAREHOUSE", "SUBMITTED", None}

Msg(s, a, c, e) == [status |-> s, attachments |-> a, content |-> c, error |-> e]
NoMessage == Msg("<unset>", <<>>, None, None)
\* the JSON bodies the status endpoint may answer with: content and
\* attachments come with COMPLETED, error with FAILED
Messages ==
    {Msg("COMPLETED", <<>>, c, None) : c \in {None, "answer"}}
    \cup {Msg("COMPLETED", <<"a1">>, "answer", None),
          Msg("COMPLETED", <<"a1", "a2">>, None, None)}
    \cup {Msg("FAILED", <<>>, None, e) : e \in {None, "syntax error"}}
    \cup {Msg(s, <<>>, None, None) : s \in ServiceStatuses \ {"COMPLETED", "FAILED"}}

\* str(e) of the exceptions the remote calls may end with
TransportError == "RequestException"
BadBody == "'list' object has no attribute 'get'"
SlackError == "SlackApiError"

\* outcomes of the requests.get of poll_genie_message: a JSON object, a
\* transport failure (RequestException), or a JSON body that is no object
FetchOutcomes ==
    {[kind |-> "json", body |-> m] : m \in Messages}
    \cup {[kind |-> k, body |-> NoMessage] : k \in {"transport", "bad_body"}}

\* outcomes of the requests.post of start_genie_conversation for request r;
\* the ids the service issues are particular to the call
StartOutcomes(r) ==
    {[kind |-> "json", conversation_id |-> c, message_id |-> m] :
        c \in {None, ToString(r)}, m \in {None, ToString(r)}}
    \cup {[kind |-> k, conversation_id |-> None, message_id |-> None] :
        k \in {"transport", "empty", "bad_body"}}

\* ------------------------------------------------------------- strings
\* the three-backquote fence of a Slack code block
Fence == "[fence]"
\* One line of text: prefix followed by " | ".join(cells)
Line(prefix, cells) == [prefix |-> prefix, cells |-> cells]
\* A Python string: its parts, and for a rendered table its lines
Text(parts) == [parts |-> parts, table |-> <<>>]
Table(lines) == [parts |-> <<>>, table |-> lines]
NoText == Text(<<"<unset>">>)

\* statement_response of the query-result endpoint
QueryResult(sql, columns, data_array) ==
    [sql |-> sql, columns |-> columns, data_array |-> data_array]
NoResult == QueryResult(None, <<>>, <<>>)
QueryResults ==
    {QueryResult(None, <<>>, <<>>),
     QueryResult("SELECT x,y FROM t", <<"x", "y">>, <<<<"1", "foo">>, <<"2", "bar">>>>),
     QueryResult(None, <<>>, <<<<"1">>>>)}
AttachOutcomes ==
    {[kind |-> "json", body |-> q] : q \in QueryResults}
    \cup {[kind |-> k, body |-> NoResult] : k \in {"transport", "bad_body"}}

Min(a, b) == IF a < b THEN a ELSE b

\* the result sets the formatter is given directly: n rows for every n up to
\* MaxRows, with or without column names and SQL text; row i starts with
\* ToString(i) and, when two cells wide, ends with a null
MaxRows == 12
FormatRow(i, w) == IF w = 1 THEN <<ToString(i)>> ELSE <<ToString(i), None>>
FormatInputs ==
    {QueryResult(sql, columns, [i \in 1..n |-> FormatRow(i, w)]) :
        sql \in {None, "", "SELECT x FROM t"},
        columns \in {<<>>, <<"x">>, <<"x", "y">>},
        n \in 0..MaxRows,
        w \in {1, 2}}

\* format_query_result: if sql_query: the fenced SQL block
sql_block(sql_query) ==
    IF sql_query # None /\ sql_query # ""
    THEN <<Line("*SQL Query: *", <<>>), Line(Fence, <<sql_query>>),
           Line(Fence, <<>>), Line("", <<>>)>>
    ELSE <<>>

\* results_head that leaves out the separator row
results_head_no_separator(column_names) ==
    IF column_names # <<>>
    THEN <<Line("*Results:*", <<>>), Line(Fence, column_names)>>
    ELSE <<Line("*Results:*", <<>>), Line(Fence, <<>>)>>

\* format_query_result: if column_names: header row and separator row, else
\* the bare opening of the results block
results_head(column_names) ==
    IF column_names # <<>>
    THEN <<Line("*Results:*", <<>>), Line(Fence, column_names),
           Line("", [i \in 1..Len(column_names) |-> "---"])>>
    ELSE <<Line("*Results:*", <<>>), Line(Fence, <<>>)>>

\* format_query_result: for row in data_array[:10], str(item) joined by " | "
data_rows(data_array) ==
    [i \in 1..Min(Len(data_array), 10) |->
        Line("", [j \in 1..Len(data_array[i]) |-> Str(data_array[i][j])])]

\* more_rows that also adds its note for exactly ten rows
more_rows_from_ten(data_array) ==
    IF Len(data_array) >= 10
    THEN <<Line("... and ", <<ToString(Len(data_array) - 10), " more rows">>)>>
    ELSE <<>>

\* format_query_result: if len(data_array) > 10: the note on the rows left out
more_rows(data_array) ==
    IF Len(data_array) > 10
    THEN <<Line("... and ", <<ToString(Len(data_array) - 10), " more rows">>)>>
    ELSE <<>>

\* format_query_result, the try block
format_query_result(result_data) ==
    LET sql_query == result_data.sql
        data_array == result_data.data_array
        column_names == result_data.columns
    IN  IF data_array = <<>>
        THEN Text(<<"No data returned from the query">>)
        ELSE Table(sql_block(sql_query) \o results_head(column_names)
                   \o data_rows(data_array) \o more_rows(data_array)
                   \o <<Line(Fence, <<>>)>>)

\* execute_message_attachment_query: what it returns for each outcome of its
\* requests.get
execute_message_attachment_query_result(o) ==
    CASE o.kind = "transport" ->
            Text(<<"Error retrieving query result: ", TransportError>>)
      [] o.kind = "bad_body" ->
            Text(<<"Query completed but failed to format result: ", BadBody>>)
      [] OTHER -> format_query_result(o.body)

\* call_genie_api, step 3: the string for a message that needs no attachment
call_genie_api_step3(message_data) ==
    IF message_data.status = "COMPLETED"
    THEN IF message_data.content = None
         THEN Text(<<"No response content available">>)
         ELSE Text(<<message_data.content>>)
    ELSE IF message_data.status = "FAILED"
    THEN Text(<<"Genie query failed: ",
                IF message_data.error = None THEN "Unknown error" ELSE message_data.error>>)
    ELSE Text(<<"Unexpected status: ", Str(message_data.status)>>)

\* used_attachment that takes the latest attachment of the list
used_attachment_last(attachments) == attachments[Len(attachments)]

\* call_genie_api, step 3: attachments[0] is the attachment whose result is fetched
used_attachment(attachments) == attachments[1]

\* call_genie_api, step 3: the COMPLETED branch that fetches a query result
NeedsAttachment(message_data) ==
    message_data.status = "COMPLETED" /\ message_data.attachments # <<>>

\* call_genie_api: except Exception as e: return f"Error: {str(e)}"
call_genie_api_except(e) == Text(<<"Error: ">> \o e)

TimeoutError == <<"Timeout waiting for Genie response">>
ExhaustedError(n) == <<"Failed to get response after ", ToString(n), " attempts">>

\* an except clause that catches requests.exceptions.RequestException only
call_genie_api_catches_requests_only(e) == e = <<TransportError>>

\* call_genie_api: "except Exception" catches every exception e raised in its
\* try block
call_genie_api_catches(e) == TRUE

\* after_start without the check of start_genie_conversation's answer
after_start_unchecked(o) ==
    CASE o.kind = "bad_body" -> "raise"
      [] OTHER -> "poll"

\* after_start that checks the conversation_id alone
after_start_conversation_only(o) ==
    CASE o.kind \in {"transport", "empty"} -> "could_not_start"
      [] o.kind = "bad_body" -> "raise"
      [] OTHER -> IF o.conversation_id = None THEN "invalid" ELSE "poll"

\* call_genie_api step 1: what it does with the outcome o of the start call:
\* return one of two error strings, raise into its except, or go on to poll
after_start(o) ==
    CASE o.kind \in {"transport", "empty"} -> "could_not_start"
      [] o.kind = "bad_body" -> "raise"
      [] OTHER -> IF o.conversation_id = None \/ o.message_id = None
                  THEN "invalid" ELSE "poll"

\* poll_step with only COMPLETED ending the poll
poll_step_completed_only(o, a, n) ==
    CASE o.kind = "transport" -> IF a = n - 1 THEN "exhausted" ELSE "sleep"
      [] o.kind = "bad_body" -> "raise"
      [] OTHER -> IF o.body.status = "COMPLETED" THEN "return"
                  ELSE IF o.body.status \in InProgress \cup Terminal THEN "sleep"
                  ELSE "return"

\* poll_step without the check for the last attempt in the except branch
poll_step_no_last_check(o, a, n) ==
    CASE o.kind = "transport" -> "sleep"
      [] o.kind = "bad_body" -> "raise"
      [] OTHER -> IF o.body.status \in Terminal THEN "return"
                  ELSE IF o.body.status \in InProgress THEN "sleep"
                  ELSE "return"

\* poll_step raising on the first transport error
poll_step_no_tolerance(o, a, n) ==
    CASE o.kind = "transport" -> "exhausted"
      [] o.kind = "bad_body" -> "raise"
      [] OTHER -> IF o.body.status \in Terminal THEN "return"
                  ELSE IF o.body.status \in InProgress THEN "sleep"
                  ELSE "return"

\* poll_step that keeps polling on a status it does not know
poll_step_unknown_retries(o, a, n) ==
    CASE o.kind = "transport" -> IF a = n - 1 THEN "exhausted" ELSE "sleep"
      [] o.kind = "bad_body" -> "raise"
      [] OTHER -> IF o.body.status \in Terminal THEN "return" ELSE "sleep"

\* poll_genie_message: what the iteration with index a of max_attempts n does
\* with the outcome o of its requests.get
poll_step(o, a, n) ==
    CASE o.kind = "transport" -> IF a = n - 1 THEN "exhausted" ELSE "sleep"
      [] o.kind = "bad_body" -> "raise"
      [] OTHER -> IF o.body.status \in Terminal THEN "return"
                  ELSE IF o.body.status \in InProgress THEN "sleep"
                  ELSE "return"

\* a loop without a bound on its iterations
range_continues_forever(a, n) == TRUE

\* range_continues with one iteration too few
range_continues_one_short(a, n) == a + 2 < n

\* range_continues with one iteration too many
range_continues_off_by_one(a, n) == a + 1 <= n

\* for attempt in range(max_attempts): is there an iteration after index a
range_continues(a, n) == a + 1 < n

\* verify_slack_request whose except branch lets the request through
verify_slack_request_open_on_error(sig) == sig # "invalid"

\* verify_slack_request: is_valid's answer, False when it raises
verify_slack_request(sig) == IF sig = "raises" THEN FALSE ELSE sig = "valid"


\* ------------------------------------------------------------------ state
VARIABLES
    max_attempts,    \* parameter max_attempts of poll_genie_message
    hpc,             \* position of slack_commands for each request
    req,             \* the request: signature outcome, command, text, channel_id
    http,            \* what slack_commands returned: "none", "200", "400", "401"
    upc,             \* position of the thread running process_and_post_result
    handle,          \* conversation_id and message_id kept by call_genie_api
    attempt,         \* loop variable of poll_genie_message
    response,        \* outcome of the requests.get of the current iteration of
                     \* poll_genie_message
    poll_exit,       \* how poll_genie_message ended
    message_data,    \* the message poll_genie_message returned
    attachment_id,   \* the attachment whose query result was requested
    result_data,     \* the body the query-result endpoint answered with
    polled,          \* the handles the status requests of the unit were made for
    genie_response,  \* the string call_genie_api returned
    caught,          \* the exception process_and_post_result caught
    calls,           \* number of start, status and query-result requests issued,
                     \* and of status requests answered with an in-progress
                     \* status (waiting) or failed in transport (failed)
    slept,           \* total time spent in time.sleep
    posted           \* the chat_postMessage calls made, in order

vars == <<max_attempts, hpc, req, http, upc, handle, attempt, response, poll_exit,
          message_data, attachment_id, result_data, polled, genie_response, caught,
          calls, slept, posted>>

handlerVars == <<hpc, req, http>>
attachVars == <<attachment_id, result_data>>
pollVars == <<attempt, response, poll_exit, message_data, slept>>

NoRequest == [sig |-> None, command |-> None, text |-> None, channel_id |-> None]
NoHandle == [conversation_id |-> None, message_id |-> None]
NoFetch == [kind |-> "none", body |-> NoMessage]
NoCalls == [start |-> 0, fetch |-> 0, waiting |-> 0, failed |-> 0, attach |-> 0]

InitUnits ==
    /\ req = [r \in Req |-> NoRequest]
    /\ http = [r \in Req |-> "none"]
    /\ upc = [r \in Req |-> "none"]
    /\ handle = [r \in Req |-> NoHandle]
    /\ attempt = [r \in Req |-> 0]
    /\ response = [r \in Req |-> NoFetch]
    /\ poll_exit = [r \in Req |-> "none"]
    /\ message_data = [r \in Req |-> NoMessage]
    /\ attachment_id = [r \in Req |-> None]
    /\ result_data = [r \in Req |-> NoResult]
    /\ polled = [r \in Req |-> {}]
    /\ genie_response = [r \in Req |-> NoText]
    /\ caught = [r \in Req |-> <<>>]
    /\ calls = [r \in Req |-> NoCalls]
    /\ slept = [r \in Req |-> 0]
    /\ posted = [r \in Req |-> <<>>]

\* One command, polled with the default max_attempts=30
Init ==
    /\ max_attempts = DefaultMaxAttempts
    /\ hpc = [r \in Req |-> IF r = 1 THEN "idle" ELSE "absent"]
    /\ InitUnits

\* Up to NumReq commands at once; the attempt budget is a parameter
InitConcurrent ==
    /\ max_attempts \in 1..MaxBudget
    /\ hpc = [r \in Req |-> "idle"]
    /\ InitUnits

\* ---------------------------------------------------------------- webhook
\* slack_commands up to and including Thread(...).start()
slack_commands(r) ==
    /\ hpc[r] = "idle"
    /\ \E sig \in Signatures, command \in Commands, f \in Forms :
        /\ req' = [req EXCEPT ![r] = [sig |-> sig, command |-> command,
                                      text |-> f.text, channel_id |-> f.channel_id]]
        /\ IF ~verify_slack_request(sig)
           THEN /\ hpc' = [hpc EXCEPT ![r] = "returned"]
                /\ http' = [http EXCEPT ![r] = "401"]
                /\ upc' = upc
           ELSE IF command = COMMAND
           THEN /\ hpc' = [hpc EXCEPT ![r] = "started"]
                /\ http' = http
                /\ upc' = [upc EXCEPT ![r] = "ready"]
           ELSE /\ hpc' = [hpc EXCEPT ![r] = "returned"]
                /\ http' = [http EXCEPT ![r] = "400"]
                /\ upc' = upc
    /\ UNCHANGED <<max_attempts, handle, pollVars, attachVars, polled, genie_response,
                   caught, calls, posted>>

\* slack_commands_return that joins the thread before it answers
slack_commands_return_joined(r) ==
    /\ hpc[r] = "started"
    /\ upc[r] \in {"done", "crashed"}
    /\ hpc' = [hpc EXCEPT ![r] = "returned"]
    /\ http' = [http EXCEPT ![r] = "200"]
    /\ UNCHANGED <<max_attempts, req, upc, handle, attempt, response, poll_exit,
                   message_data, slept, attachVars, polled, genie_response, caught,
                   calls, posted>>

\* slack_commands: return jsonify({...}), 200 after the thread was started
slack_commands_return(r) ==
    /\ hpc[r] = "started"
    /\ hpc' = [hpc EXCEPT ![r] = "returned"]
    /\ http' = [http EXCEPT ![r] = "200"]
    /\ UNCHANGED <<max_attempts, req, upc, handle, pollVars, attachVars, polled,
                   genie_response, caught, calls, posted>>

\* ----------------------------------------------------------- unit of work
\* call_genie_api returns text: process_and_post_result goes on to post it
Return(r, text) ==
    /\ genie_response' = [genie_response EXCEPT ![r] = text]
    /\ upc' = [upc EXCEPT ![r] = "post"]
    /\ caught' = caught

\* exception e is raised inside the try block of call_genie_api: its except
\* returns a string; an exception it did not catch would reach the except of
\* process_and_post_result
Raise(r, e) ==
    IF call_genie_api_catches(e)
    THEN Return(r, call_genie_api_except(e))
    ELSE /\ caught' = [caught EXCEPT ![r] = e]
         /\ upc' = [upc EXCEPT ![r] = "except"]
         /\ genie_response' = genie_response

\* call_genie_api step 1: start_genie_conversation and the checks on its answer
start_genie_conversation(r) ==
    /\ upc[r] = "ready"
    /\ calls' = [calls EXCEPT ![r].start = @ + 1]
    /\ \E o \in StartOutcomes(r) :
        CASE after_start(o) = "could_not_start" ->
                /\ Return(r, Text(<<"Error: Could not start conversation with Genie">>))
                /\ handle' = handle
          [] after_start(o) = "raise" ->
                /\ Raise(r, <<BadBody>>)
                /\ handle' = handle
          [] after_start(o) = "invalid" ->
                /\ Return(r, Text(<<"Error: Invalid response from Genie API">>))
                /\ handle' = handle
          [] OTHER ->
                /\ handle' = [handle EXCEPT ![r] =
                        [conversation_id |-> o.conversation_id,
                         message_id |-> o.message_id]]
                /\ upc' = [upc EXCEPT ![r] = "fetch"]
                /\ UNCHANGED <<genie_response, caught>>
    /\ UNCHANGED <<max_attempts, handlerVars, pollVars, attachVars, polled, posted>>

\* poll_genie_message returned message m: call_genie_api step 3
PollReturns(r, m) ==
    /\ message_data' = [message_data EXCEPT ![r] = m]
    /\ poll_exit' = [poll_exit EXCEPT ![r] = "return"]
    /\ IF NeedsAttachment(m)
       THEN /\ upc' = [upc EXCEPT ![r] = "attach"]
            /\ UNCHANGED <<genie_response, caught>>
       ELSE Return(r, call_genie_api_step3(m))
    /\ UNCHANGED <<attempt, slept>>

\* poll_genie_message ended with exception e
PollRaises(r, how, e) ==
    /\ poll_exit' = [poll_exit EXCEPT ![r] = how]
    /\ Raise(r, e)
    /\ UNCHANGED <<message_data, attempt, slept>>

\* time.sleep(delay) begins
Sleep(r) ==
    /\ slept' = [slept EXCEPT ![r] = @ + delay]
    /\ upc' = [upc EXCEPT ![r] = "sleep"]
    /\ UNCHANGED <<message_data, poll_exit, genie_response, caught, attempt>>

\* poll_url built from ids kept in one place for all threads
poll_url_shared(r) == handle[1]

\* poll_genie_message: the url of its requests is built from the
\* conversation_id and message_id call_genie_api passed to it
poll_url(r) == handle[r]

\* one iteration of the loop of poll_genie_message, up to its return, raise
\* or time.sleep
poll_genie_message(r) ==
    /\ upc[r] = "fetch"
    /\ \E o \in FetchOutcomes :
        /\ response' = [response EXCEPT ![r] = o]
        /\ calls' = [calls EXCEPT
                ![r].fetch = @ + 1,
                ![r].waiting = IF o.kind = "json" /\ o.body.status \in InProgress
                               THEN @ + 1 ELSE @,
                ![r].failed = IF o.kind = "transport" THEN @ + 1 ELSE @]
        /\ CASE poll_step(o, attempt[r], max_attempts) = "return" ->
                    PollReturns(r, o.body)
             [] poll_step(o, attempt[r], max_attempts) = "sleep" ->
                    Sleep(r)
             [] poll_step(o, attempt[r], max_attempts) = "exhausted" ->
                    PollRaises(r, "exhausted", ExhaustedError(max_attempts))
             [] OTHER ->
                    PollRaises(r, "exception", <<BadBody>>)
    /\ polled' = [polled EXCEPT ![r] = @ \cup {poll_url(r)}]
    /\ UNCHANGED <<max_attempts, handlerVars, handle, attachVars, posted>>

\* time.sleep(delay) returns: the next iteration, or the end of the loop and
\* raise Exception("Timeout waiting for Genie response")
sleep_returns(r) ==
    /\ upc[r] = "sleep"
    /\ IF range_continues(attempt[r], max_attempts)
       THEN /\ attempt' = [attempt EXCEPT ![r] = @ + 1]
            /\ upc' = [upc EXCEPT ![r] = "fetch"]
            /\ UNCHANGED <<poll_exit, genie_response, caught>>
       ELSE /\ poll_exit' = [poll_exit EXCEPT ![r] = "timeout"]
            /\ Raise(r, TimeoutError)
            /\ attempt' = attempt
    /\ response' = [response EXCEPT ![r] = NoFetch]
    /\ UNCHANGED <<max_attempts, handlerVars, handle, message_data,
                   attachVars, polled, calls, slept, posted>>

\* call_genie_api step 3, COMPLETED with attachments:
\* execute_message_attachment_query for attachments[0]
execute_message_attachment_query(r) ==
    /\ upc[r] = "attach"
    /\ calls' = [calls EXCEPT ![r].attach = @ + 1]
    /\ attachment_id' = [attachment_id EXCEPT ![r] =
                            used_attachment(message_data[r].attachments)]
    /\ \E o \in AttachOutcomes :
        /\ result_data' = [result_data EXCEPT ![r] = o.body]
        /\ Return(r, execute_message_attachment_query_result(o))
    /\ UNCHANGED <<max_attempts, handlerVars, handle, pollVars, polled, posted>>

\* chat_postMessage with a fixed channel instead of the command's channel_id
chat_postMessage_fixed_channel(r, text, ok) ==
    posted' = [posted EXCEPT ![r] =
                  Append(@, [channel |-> "C1", text |-> text, ok |-> ok])]

\* chat_postMessage whose channel is kept in one place for all threads
chat_postMessage_shared_channel(r, text, ok) ==
    posted' = [posted EXCEPT ![r] =
                  Append(@, [channel |-> req[1].channel_id, text |-> text, ok |-> ok])]

\* slack_client.chat_postMessage(channel=..., text=...): delivered or raised
chat_postMessage(r, text, ok) ==
    posted' = [posted EXCEPT ![r] =
                  Append(@, [channel |-> req[r].channel_id, text |-> text, ok |-> ok])]

\* after_post that runs the except branch after a delivered message as well
after_post_always_except(ok) == "except"

\* process_and_post_result: the try block ends when its chat_postMessage
\* returned, and the except branch runs when it raised
after_post(ok) == IF ok THEN "done" ELSE "except"

\* process_and_post_result: the post of call_genie_api's string
process_and_post_result(r) ==
    /\ upc[r] = "post"
    /\ \E ok \in BOOLEAN :
        /\ chat_postMessage(r, genie_response[r], ok)
        /\ upc' = [upc EXCEPT ![r] = after_post(ok)]
        /\ caught' = [caught EXCEPT ![r] = IF ok THEN @ ELSE <<SlackError>>]
    /\ UNCHANGED <<max_attempts, handlerVars, handle, pollVars, attachVars, polled,
                   genie_response, calls>>

\* process_and_post_result: the except branch posts the error message
process_and_post_result_except(r) ==
    /\ upc[r] = "except"
    /\ \E ok \in BOOLEAN :
        /\ chat_postMessage(r, Text(<<"Sorry, there was an error processing your request: ">>
                                     \o caught[r]), ok)
        /\ upc' = [upc EXCEPT ![r] = IF ok THEN "done" ELSE "crashed"]
    /\ UNCHANGED <<max_attempts, handlerVars, handle, pollVars, attachVars, polled,
                   genie_response, caught, calls>>

Next ==
    \E r \in Req :
        \/ slack_commands(r)
        \/ slack_commands_return(r)
        \/ start_genie_conversation(r)
        \/ poll_genie_message(r)
        \/ sleep_returns(r)
        \/ execute_message_attachment_query(r)
        \/ process_and_post_result(r)
        \/ process_and_post_result_except(r)

Spec == Init /\ [][Next]_vars
SpecConcurrent == InitConcurrent /\ [][Next]_vars

\* the steps of the thread of request r
UnitStep(r) ==
    \/ start_genie_conversation(r)
    \/ poll_genie_message(r)
    \/ sleep_returns(r)
    \/ execute_message_attachment_query(r)
    \/ process_and_post_result(r)
    \/ process_and_post_result_except(r)

\* A started thread keeps being scheduled, every request it makes is answered
\* or fails within its timeout, and every time.sleep returns
SpecFair == Spec /\ \A r \in Req : WF_vars(UnitStep(r))


\* ================================================================ claims
\* unit r takes a step that issues the status request
Fetches(r) == upc[r] = "fetch" /\ calls'[r].fetch = calls[r].fetch + 1
\* the status request of this step was answered with a JSON object of status st
Observes(r, st) ==
    Fetches(r) /\ response'[r].kind = "json" /\ response'[r].body.status = st
\* the status request of this step failed in transport
FetchFails(r) == Fetches(r) /\ response'[r].kind = "transport"
\* unit r takes a step
Steps(r) == upc'[r] # upc[r] \/ calls'[r] # calls[r] \/ attempt'[r] # attempt[r]

\* C1: a status request answered COMPLETED, FAILED or CANCELLED, on whatever
\* attempt, makes poll_genie_message return that very message in the same
\* step, without sleeping; and once poll_genie_message has returned, no
\* further status request is issued and no sleep taken for that handle.
C1_TerminalReturnsAtOnce ==
    [][\A r \in Req :
        /\ \A st \in {"COMPLETED", "FAILED", "CANCELLED"} :
              Observes(r, st) =>
                  /\ poll_exit'[r] = "return"
                  /\ message_data'[r] = response'[r].body
                  /\ message_data'[r].status = st
                  /\ slept'[r] = slept[r]
                  /\ upc'[r] \in {"attach", "post"}
        /\ poll_exit[r] = "return" =>
              /\ calls'[r].fetch = calls[r].fetch
              /\ slept'[r] = slept[r]
              /\ message_data'[r] = message_data[r]]_vars

\* C1 witness: a unit ran to its end after poll_genie_message returned a
\* CANCELLED message seen on the last permitted attempt
C1_Witness ==
    \E r \in Req :
        /\ upc[r] = "done"
        /\ poll_exit[r] = "return"
        /\ message_data[r].status = "CANCELLED"
        /\ attempt[r] = max_attempts - 1
        /\ calls[r].fetch = max_attempts

\* C2 as stated: on every attempt on which a recognized in-progress status
\* is observed, poll sleeps the delay and then issues another status request
\* rather than ending the poll.
C2_Original ==
    [][\A r \in Req :
        \A st \in {"IN_PROGRESS", "PENDING", "FILTERING_CONTEXT", "EXECUTING_QUERY",
                   "ASKING_AI", "PENDING_WAREHOUSE"} :
            /\ Observes(r, st) => upc'[r] = "sleep" /\ slept'[r] = slept[r] + delay
            /\ (upc[r] = "sleep" /\ response[r].body.status = st /\ Steps(r)) =>
                  upc'[r] = "fetch" /\ poll_exit'[r] = "none"]_vars

\* C2 amended: on every attempt a recognized in-progress status makes poll
\* sleep the delay without returning; after the sleep of an attempt other
\* than the last (index < max_attempts - 1) the next step of the unit is
\* another status request, and after the sleep of the last attempt poll ends
\* with the Timeout error and no further status request.
C2_InProgressSleepsThenRetries ==
    [][\A r \in Req :
        /\ \A st \in {"IN_PROGRESS", "PENDING", "FILTERING_CONTEXT", "EXECUTING_QUERY",
                      "ASKING_AI", "PENDING_WAREHOUSE"} :
            /\ Observes(r, st) =>
                  /\ upc'[r] = "sleep"
                  /\ slept'[r] = slept[r] + delay
                  /\ poll_exit'[r] = "none"
                  /\ attempt'[r] = attempt[r]
            /\ (upc[r] = "sleep" /\ response[r].body.status = st /\ Steps(r)) =>
                  IF attempt[r] < max_attempts - 1
                  THEN /\ upc'[r] = "fetch"
                       /\ attempt'[r] = attempt[r] + 1
                       /\ poll_exit'[r] = "none"
                       /\ calls'[r] = calls[r]
                       /\ slept'[r] = slept[r]
                  ELSE /\ poll_exit'[r] = "timeout"
                       /\ calls'[r] = calls[r]
                       /\ upc'[r] = "post"
        /\ (upc[r] = "fetch" /\ Steps(r)) => Fetches(r)]_vars

\* C2 witness: after two in-progress answers and their two sleeps the unit
\* is about to issue its third status request
C2_Witness ==
    \E r \in Req :
        /\ upc[r] = "fetch"
        /\ attempt[r] = 2
        /\ calls[r].waiting = 2
        /\ calls[r].fetch = 2
        /\ slept[r] = 2 * delay

\* C3: when every status request of a poll was answered with a recognized
\* in-progress status, the poll issues at most max_attempts requests, ends
\* with the Timeout error after exactly max_attempts of them, and
\* call_genie_api returns the string "Error: Timeout waiting for Genie
\* response" instead of raising.
C3_AllInProgressTimesOut ==
    \A r \in Req :
        (calls[r].fetch > 0 /\ calls[r].waiting = calls[r].fetch) =>
            /\ calls[r].fetch <= max_attempts
            /\ upc[r] \in {"sleep", "fetch"} => poll_exit[r] = "none"
            /\ upc[r] \notin {"sleep", "fetch"} =>
                  /\ poll_exit[r] = "timeout"
                  /\ calls[r].fetch = max_attempts
                  /\ slept[r] = max_attempts * delay
                  /\ genie_response[r] =
                        Text(<<"Error: ", "Timeout waiting for Genie response">>)
                  /\ upc[r] = "except" => Len(posted[r]) = 1

\* C3 witness: a poll of max_attempts in-progress answers ended in Timeout and
\* the timeout string was posted
C3_Witness ==
    \E r \in Req :
        /\ poll_exit[r] = "timeout"
        /\ calls[r].waiting = max_attempts
        /\ upc[r] = "done"
        /\ Len(posted[r]) = 1
        /\ posted[r][1].text = Text(<<"Error: ", "Timeout waiting for Genie response">>)


\* C4: a transport error on the last permitted attempt (index
\* max_attempts - 1) ends the poll in the same step with the Exhausted error
\* "Failed to get response after N attempts", which call_genie_api returns
\* as a string different from the Timeout one; no sleep is taken and no
\* status request issued after it, whatever the earlier attempts saw.
C4_LastAttemptErrorExhausts ==
    [][\A r \in Req :
        /\ (FetchFails(r) /\ attempt[r] = max_attempts - 1) =>
              /\ poll_exit'[r] = "exhausted"
              /\ upc'[r] = "post"
              /\ slept'[r] = slept[r]
              /\ genie_response'[r] =
                    Text(<<"Error: ", "Failed to get response after ",
                           ToString(max_attempts), " attempts">>)
              /\ genie_response'[r] #
                    Text(<<"Error: ", "Timeout waiting for Genie response">>)
        /\ poll_exit[r] = "exhausted" =>
              /\ calls'[r].fetch = calls[r].fetch
              /\ calls[r].fetch = max_attempts
              /\ slept'[r] = slept[r]
              /\ poll_exit'[r] = "exhausted"]_vars

\* C4 witness: the poll ended Exhausted after in-progress answers on every
\* earlier attempt and a transport error on the last one
C4_Witness ==
    \E r \in Req :
        /\ poll_exit[r] = "exhausted"
        /\ calls[r].failed = 1
        /\ calls[r].waiting = max_attempts - 1
        /\ slept[r] = (max_attempts - 1) * delay
        /\ upc[r] = "done"

\* C5: a transport error on an attempt other than the last does not end the
\* poll: the unit sleeps the delay and its next step after the sleep is the
\* status request of the next attempt, as for an in-progress status; a
\* message returned later is the poll result.
C5_EarlierErrorTolerated ==
    [][\A r \in Req :
        /\ (FetchFails(r) /\ attempt[r] < max_attempts - 1) =>
              /\ upc'[r] = "sleep"
              /\ slept'[r] = slept[r] + delay
              /\ poll_exit'[r] = "none"
        /\ (upc[r] = "sleep" /\ response[r].kind = "transport" /\ Steps(r)) =>
              /\ attempt[r] < max_attempts - 1
              /\ upc'[r] = "fetch"
              /\ attempt'[r] = attempt[r] + 1
              /\ poll_exit'[r] = "none"
        /\ (upc[r] = "fetch" /\ Steps(r)) => Fetches(r)
        /\ (calls[r].failed > 0 /\ Observes(r, "COMPLETED")) =>
              /\ poll_exit'[r] = "return"
              /\ message_data'[r] = response'[r].body]_vars

\* C5 witness: a COMPLETED message was returned and delivered by a poll whose
\* earlier status requests had failed in transport
C5_Witness ==
    \E r \in Req :
        /\ poll_exit[r] = "return"
        /\ message_data[r].status = "COMPLETED"
        /\ calls[r].failed = 2
        /\ calls[r].fetch = 3
        /\ upc[r] = "done"

\* C6: a status outside the terminal and in-progress lists, a missing status
\* field included, makes poll_genie_message return that message in the same
\* step without sleeping, no further status request follows, and the string
\* call_genie_api returns is "Unexpected status: " followed by that status.
C6_UnknownStatusReturned ==
    [][\A r \in Req :
        /\ \A st \in {"SUBMITTED", None} :
              Observes(r, st) =>
                  /\ poll_exit'[r] = "return"
                  /\ message_data'[r] = response'[r].body
                  /\ slept'[r] = slept[r]
                  /\ upc'[r] = "post"
                  /\ genie_response'[r] = Text(<<"Unexpected status: ", Str(st)>>)
        /\ (poll_exit[r] = "return" /\ message_data[r].status \in {"SUBMITTED", None}) =>
              /\ calls'[r] = calls[r]
              /\ genie_response'[r] = genie_response[r]]_vars

\* C6 witness: the first status request was answered without a status field
\* and the unit posted "Unexpected status: None"
C6_Witness ==
    \E r \in Req :
        /\ upc[r] = "done"
        /\ calls[r].fetch = 1
        /\ message_data[r].status = None
        /\ posted[r][1].text = Text(<<"Unexpected status: ", "None">>)


\* call_genie_api of unit r has ended
CallEnded(r) == upc[r] \in {"post", "except", "done", "crashed"}

\* C7: call_genie_api never raises: whatever the outcomes of the start call,
\* of every status request and of the query-result request, it ends by
\* returning a string, which is the text of the first chat_postMessage; the
\* except branch of process_and_post_result is entered only because that
\* chat_postMessage raised, never because call_genie_api did.
C7_CallNeverRaises ==
    \A r \in Req :
        /\ CallEnded(r) => genie_response[r] # NoText
        /\ caught[r] \in {<<>>, <<SlackError>>}
        /\ upc[r] = "except" => (Len(posted[r]) = 1 /\ ~posted[r][1].ok)
        /\ posted[r] # <<>> => posted[r][1].text = genie_response[r]

\* C7 witness: a status request answered with a body that is no JSON object
\* raised inside poll_genie_message, call_genie_api returned "Error: ..." and
\* the unit posted it
C7_Witness ==
    \E r \in Req :
        /\ upc[r] = "done"
        /\ poll_exit[r] = "exception"
        /\ genie_response[r] = Text(<<"Error: ", BadBody>>)
        /\ posted[r] = <<[channel |-> req[r].channel_id, text |-> genie_response[r],
                          ok |-> TRUE]>>

\* C8: one run of call_genie_api issues the start request exactly once; when
\* it yields no handle the run returns one of its explanatory strings and
\* issues no second start request, no status request and no query-result
\* request.
C8_StartOnceNoRetry ==
    \A r \in Req :
        /\ calls[r].start = IF upc[r] \in {"none", "ready"} THEN 0 ELSE 1
        /\ (calls[r].start = 1 /\ handle[r] = NoHandle) =>
              /\ CallEnded(r)
              /\ calls[r].fetch = 0
              /\ calls[r].attach = 0
              /\ genie_response[r] \in
                    {Text(<<"Error: Could not start conversation with Genie">>),
                     Text(<<"Error: Invalid response from Genie API">>),
                     Text(<<"Error: ", BadBody>>)}

\* C8 witness: the start request failed and the unit ended having posted the
\* explanatory string after that single request
C8_Witness ==
    \E r \in Req :
        /\ upc[r] = "done"
        /\ calls[r] = [NoCalls EXCEPT !.start = 1]
        /\ posted[r][1].text = Text(<<"Error: Could not start conversation with Genie">>)

C10_OnlyVerifiedCommandsRun ==
    \A r \in Req :
        /\ (upc[r] # "none" \/ calls[r] # NoCalls \/ posted[r] # <<>>) =>
              (req[r].sig = "valid" /\ req[r].command = COMMAND)
        /\ (hpc[r] \in {"started", "returned"} /\ req[r].sig # "valid") =>
              (http[r] = "401" /\ upc[r] = "none")
        /\ (hpc[r] \in {"started", "returned"} /\ req[r].sig = "valid"
                /\ req[r].command # COMMAND) =>
              (http[r] = "400" /\ upc[r] = "none")

\* C10 witness: a request for COMMAND whose verification raised was answered
\* 401 and no thread exists for it
C10_Witness ==
    \E r \in Req :
        /\ req[r].sig = "raises"
        /\ req[r].command = COMMAND
        /\ http[r] = "401"
        /\ upc[r] = "none"
        /\ calls[r] = NoCalls


\* ------------------------------------------------ the formatter alone
\* the thread of request 1 stands between lines 220 and 223: response.json()
\* returned result_data and format_query_result is about to be called
InitFormat ==
    /\ max_attempts = DefaultMaxAttempts
    /\ hpc = [r \in Req |-> IF r = 1 THEN "returned" ELSE "absent"]
    /\ req = [r \in Req |-> IF r = 1
                            THEN [sig |-> "valid", command |-> COMMAND,
                                  text |-> "q1", channel_id |-> "C1"]
                            ELSE NoRequest]
    /\ http = [r \in Req |-> IF r = 1 THEN "200" ELSE "none"]
    /\ upc = [r \in Req |-> IF r = 1 THEN "attach" ELSE "none"]
    /\ handle = [r \in Req |-> IF r = 1
                               THEN [conversation_id |-> "1", message_id |-> "1"]
                               ELSE NoHandle]
    /\ attempt = [r \in Req |-> 0]
    /\ message_data = [r \in Req |-> IF r = 1
                                     THEN Msg("COMPLETED", <<"a1">>, "answer", None)
                                     ELSE NoMessage]
    /\ response = [r \in Req |-> IF r = 1
                                 THEN [kind |-> "json", body |-> message_data[r]]
                                 ELSE NoFetch]
    /\ poll_exit = [r \in Req |-> IF r = 1 THEN "return" ELSE "none"]
    /\ attachment_id = [r \in Req |-> IF r = 1
                                      THEN used_attachment(message_data[r].attachments)
                                      ELSE None]
    /\ \E q \in FormatInputs :
          result_data = [r \in Req |-> IF r = 1 THEN q ELSE NoResult]
    /\ polled = [r \in Req |-> IF r = 1 THEN {poll_url(r)} ELSE {}]
    /\ genie_response = [r \in Req |-> NoText]
    /\ caught = [r \in Req |-> <<>>]
    /\ calls = [r \in Req |-> IF r = 1
                              THEN [start |-> 1, fetch |-> 1, waiting |-> 0,
                                    failed |-> 0, attach |-> 1]
                              ELSE NoCalls]
    /\ slept = [r \in Req |-> 0]
    /\ posted = [r \in Req |-> <<>>]

\* return format_query_result(result_data), line 223
format_result(r) ==
    /\ upc[r] = "attach"
    /\ calls[r].attach = 1
    /\ genie_response' = [genie_response EXCEPT ![r] = format_query_result(result_data[r])]
    /\ upc' = [upc EXCEPT ![r] = "post"]
    /\ UNCHANGED <<max_attempts, handlerVars, handle, pollVars, attachVars, polled,
                   caught, calls, slept, posted>>

NextFormat == \E r \in Req : format_result(r)
SpecFormat == InitFormat /\ [][NextFormat]_vars

\* the unit of request r has ended
UnitEnded(r) == upc[r] \in {"done", "crashed"}

\* what the first chat_postMessage of unit r says for each kind of failure
DescribesFailure(r, text) ==
    /\ (calls[r].start = 1 /\ handle[r] = NoHandle) =>
          text \in {Text(<<"Error: Could not start conversation with Genie">>),
                    Text(<<"Error: Invalid response from Genie API">>),
                    Text(<<"Error: ", BadBody>>)}
    /\ poll_exit[r] = "timeout" =>
          text = Text(<<"Error: ", "Timeout waiting for Genie response">>)
    /\ poll_exit[r] = "exhausted" =>
          text = Text(<<"Error: ", "Failed to get response after ",
                        ToString(max_attempts), " attempts">>)
    /\ poll_exit[r] = "exception" => text = Text(<<"Error: ", BadBody>>)
    /\ (poll_exit[r] = "return" /\ message_data[r].status = "FAILED") =>
          text = Text(<<"Genie query failed: ",
                        IF message_data[r].error = None THEN "Unknown error"
                        ELSE message_data[r].error>>)
    /\ (poll_exit[r] = "return" /\ message_data[r].status \in {"CANCELLED", "SUBMITTED", None}) =>
          text = Text(<<"Unexpected status: ", Str(message_data[r].status)>>)
    /\ (calls[r].attach = 1 /\ result_data[r] = NoResult) =>
          text \in {Text(<<"Error retrieving query result: ", TransportError>>),
                    Text(<<"Query completed but failed to format result: ", BadBody>>),
                    Text(<<"No data returned from the query">>)}

\* C11: every started unit of work eventually calls chat_postMessage, whatever
\* failed in its remote calls (transport error, malformed start answer,
\* FAILED, CANCELLED or unknown status, attempt budget used up); that first
\* call is made on the channel_id of the unit's command with the string that
\* describes the failure, and no unit ends without having made it.
C11_FailureIsPosted ==
    /\ [](\A r \in Req :
             /\ UnitEnded(r) => posted[r] # <<>>
             /\ posted[r] # <<>> =>
                   /\ \A i \in 1..Len(posted[r]) : posted[r][i].channel = req[r].channel_id
                   /\ req[r].channel_id \in {"C1", "C2"}
                   /\ posted[r][1].text = genie_response[r]
                   /\ posted[r][1].text # NoText
                   /\ DescribesFailure(r, posted[r][1].text))
    /\ \A r \in Req : (upc[r] = "ready") ~> (posted[r] # <<>>)

\* C11 witness: a unit whose poll used up its budget on transport errors
\* alone posted the Exhausted string on channel C2
C11_Witness ==
    \E r \in Req :
        /\ req[r].channel_id = "C2"
        /\ poll_exit[r] = "exhausted"
        /\ calls[r].failed = max_attempts
        /\ Len(posted[r]) = 1
        /\ posted[r][1].channel = "C2"
        /\ posted[r][1].text = Text(<<"Error: ", "Failed to get response after ",
                                     ToString(max_attempts), " attempts">>)

\* how the position of a unit may change in one step
UnitOrder ==
    {<<"none", "ready">>, <<"ready", "fetch">>, <<"ready", "post">>,
     <<"fetch", "sleep">>, <<"fetch", "attach">>, <<"fetch", "post">>,
     <<"sleep", "fetch">>, <<"sleep", "post">>, <<"attach", "post">>,
     <<"post", "done">>, <<"post", "except">>,
     <<"except", "done">>, <<"except", "crashed">>}

\* C12: every started unit of work reaches its end, given that each remote
\* call is answered or fails: it makes at most max_attempts status requests
\* and sleeps at most max_attempts times, each step moves it forward along
\* start, poll, query result, post (no step takes it back, aborts it, or ends
\* it other than through a chat_postMessage call), and an ended unit takes no
\* further step.
C12_UnitRunsToCompletion ==
    /\ [](\A r \in Req :
             /\ calls[r].fetch <= max_attempts
             /\ slept[r] <= max_attempts * delay
             /\ calls[r].start <= 1
             /\ calls[r].attach <= 1
             /\ Len(posted[r]) <= 2)
    /\ [][\A r \in Req :
            /\ upc'[r] # upc[r] => <<upc[r], upc'[r]>> \in UnitOrder
            /\ (UnitEnded(r)' /\ ~UnitEnded(r)) => Len(posted'[r]) = Len(posted[r]) + 1
            /\ UnitEnded(r) =>
                  /\ upc'[r] = upc[r]
                  /\ calls'[r] = calls[r]
                  /\ posted'[r] = posted[r]]_vars
    /\ \A r \in Req : (upc[r] = "ready") ~> UnitEnded(r)

\* C12 witness: a unit ended after the longest run there is: max_attempts
\* status requests, all sleeps, and both chat_postMessage calls
C12_Witness ==
    \E r \in Req :
        /\ UnitEnded(r)
        /\ calls[r].fetch = max_attempts
        /\ slept[r] = max_attempts * delay
        /\ Len(posted[r]) = 2

\* format_query_result has returned for the result set result_data[r]
Formatted(r) ==
    /\ upc[r] = "post"
    /\ calls[r].attach = 1
    /\ result_data[r] \in FormatInputs
    /\ genie_response[r] = format_query_result(result_data[r])

\* the line a data row is shown as: its values in str() form joined by " | "
RenderedRow(row) == Line("", [j \in 1..Len(row) |-> Str(row[j])])
\* the separator row for a column list
SeparatorRow(columns) == Line("", [j \in 1..Len(columns) |-> "---"])
\* number of lines of the SQL block and of the opening of the results block
SqlLines(withSql) == IF withSql THEN 4 ELSE 0
HeadLines(columns) == IF columns # <<>> THEN 3 ELSE 2

\* the layout C15 describes for result set d in table t: the SQL text in a
\* fenced block when withSql, the header and separator rows exactly when the
\* column list is non-empty, then the data rows
Layout(d, t, withSql) ==
    LET k == SqlLines(withSql)
        first == k + HeadLines(d.columns) + 1
    IN  /\ Len(t) >= first
        /\ withSql =>
              /\ t[1] = Line("*SQL Query: *", <<>>)
              /\ t[2] = Line(Fence, <<d.sql>>)
              /\ t[3] = Line(Fence, <<>>)
        /\ ~withSql => \A i \in 1..Len(t) : t[i].prefix # "*SQL Query: *"
        /\ t[k + 1] = Line("*Results:*", <<>>)
        /\ d.columns # <<>> =>
              /\ t[k + 2] = Line(Fence, d.columns)
              /\ t[k + 3] = SeparatorRow(d.columns)
        /\ d.columns = <<>> =>
              /\ t[k + 2] = Line(Fence, <<>>)
              /\ \A i \in 1..Len(t) : \A j \in 1..Len(t[i].cells) : t[i].cells[j] # "---"
        /\ d.data_array # <<>> => t[first] = RenderedRow(d.data_array[1])

\* C15 as stated: for every fetched result set, with any number of rows, the
\* rendered string has the SQL text in a fenced block whenever sqlText is
\* present, the header and separator rows iff the column list is non-empty,
\* and then the data rows.
C15_Original ==
    \A r \in Req :
        Formatted(r) =>
            Layout(result_data[r], genie_response[r].table, result_data[r].sql # None)

\* C15, amended: for every fetched result set with at least one row, the
\* rendered string has the SQL text in a fenced block whenever sqlText is
\* present and not the empty string (and no SQL block otherwise), the header
\* row and the separator row iff the column list is non-empty, and then the
\* data rows; for a result set with no rows the string is "No data returned
\* from the query", with neither SQL text nor header.
C15_LayoutOfNonEmptyResult ==
    \A r \in Req :
        Formatted(r) =>
            IF result_data[r].data_array # <<>>
            THEN /\ genie_response[r].parts = <<>>
                 /\ Layout(result_data[r], genie_response[r].table,
                           result_data[r].sql \notin {None, ""})
            ELSE genie_response[r] = Text(<<"No data returned from the query">>)

\* C15 witness: a result set with SQL text, two columns and rows was rendered
\* with SQL block, header row and separator row
C15_Witness ==
    \E r \in Req :
        /\ Formatted(r)
        /\ result_data[r].sql = "SELECT x FROM t"
        /\ result_data[r].columns = <<"x", "y">>
        /\ Len(result_data[r].data_array) = 3
        /\ genie_response[r].table[2] = Line(Fence, <<"SELECT x FROM t">>)
        /\ genie_response[r].table[6] = Line(Fence, <<"x", "y">>)
        /\ genie_response[r].table[7] = Line("", <<"---", "---">>)
        /\ genie_response[r].table[8] = Line("", <<"1", "None">>)

\* C16: for a result set with n rows format_query_result renders exactly
\* min(n, 10) data lines, the first rows in their order; when n > 10 one note
\* "... and (n - 10) more rows" follows them, and when n <= 10 there is no
\* such note.
C16_TenRowsAndNote ==
    \A r \in Req :
        Formatted(r) =>
            LET d == result_data[r]
                t == genie_response[r].table
                n == Len(d.data_array)
                shown == IF n < 10 THEN n ELSE 10
                before == SqlLines(d.sql \notin {None, ""}) + HeadLines(d.columns)
                notes == {i \in 1..Len(t) : t[i].prefix = "... and "}
            IN  IF n = 0
                THEN t = <<>>
                ELSE /\ Len(t) = before + shown + Cardinality(notes) + 1
                     /\ \A i \in 1..shown : t[before + i] = RenderedRow(d.data_array[i])
                     /\ t[Len(t)] = Line(Fence, <<>>)
                     /\ n > 10 =>
                           /\ notes = {before + shown + 1}
                           /\ t[before + shown + 1] =
                                 Line("... and ", <<ToString(n - 10), " more rows">>)
                     /\ n <= 10 => notes = {}

\* C16 witness: twelve rows were rendered as ten data lines and the note on
\* two more rows
C16_Witness ==
    \E r \in Req :
        /\ Formatted(r)
        /\ Len(result_data[r].data_array) = MaxRows
        /\ MaxRows > 10
        /\ result_data[r].columns = <<>>
        /\ result_data[r].sql = None
        /\ genie_response[r].table[12] = Line("", <<"10">>)
        /\ genie_response[r].table[13] =
              Line("... and ", <<ToString(MaxRows - 10), " more rows">>)
        /\ Len(genie_response[r].table) = 14

\* everything the program holds for request r: the handler's locals and the
\* locals of its thread, with the calls the thread made
UnitState(r) ==
    <<hpc[r], req[r], http[r], upc[r], handle[r], attempt[r], response[r],
      poll_exit[r], message_data[r], attachment_id[r], result_data[r], polled[r],
      genie_response[r], caught[r], calls[r], slept[r], posted[r]>>

\* the strings call_genie_api can return given what the remote calls of
\* unit r answered
OwnAnswers(r) ==
    IF handle[r] = NoHandle
    THEN {Text(<<"Error: Could not start conversation with Genie">>),
          Text(<<"Error: Invalid response from Genie API">>),
          Text(<<"Error: ", BadBody>>)}
    ELSE IF poll_exit[r] = "timeout"
    THEN {Text(<<"Error: ">> \o TimeoutError)}
    ELSE IF poll_exit[r] = "exhausted"
    THEN {Text(<<"Error: ">> \o ExhaustedError(max_attempts))}
    ELSE IF poll_exit[r] = "exception"
    THEN {Text(<<"Error: ", BadBody>>)}
    ELSE IF message_data[r].status = "COMPLETED" /\ message_data[r].attachments # <<>>
    THEN {Text(<<"Error retrieving query result: ", TransportError>>),
          Text(<<"Query completed but failed to format result: ", BadBody>>),
          format_query_result(result_data[r])}
    ELSE {call_genie_api_step3(message_data[r])}

\* C13: units of work of different commands are independent under every
\* interleaving: a step of the program changes what belongs to at most one
\* request; the ids a unit polls are those of its own start call; and what a
\* unit posts is determined by its own command and the answers to its own
\* remote calls (its own channel_id, and the string call_genie_api returns
\* for those answers), whatever the other units are doing.
C13_UnitsAreIndependent ==
    /\ [][\E r \in Req : \A q \in Req \ {r} : UnitState(q)' = UnitState(q)]_vars
    /\ [](\A r \in Req :
             /\ handle[r] \in {NoHandle, [conversation_id |-> ToString(r),
                                          message_id |-> ToString(r)]}
             /\ polled[r] \subseteq {handle[r]}
             /\ posted[r] # <<>> =>
                   /\ \A i \in 1..Len(posted[r]) : posted[r][i].channel = req[r].channel_id
                   /\ posted[r][1].text = genie_response[r]
                   /\ genie_response[r] \in OwnAnswers(r)
                   /\ Len(posted[r]) = 2 =>
                         posted[r][2].text =
                            Text(<<"Sorry, there was an error processing your request: ",
                                   SlackError>>))

\* C13 witness: two units ran interleaved, one ended with an answer on its
\* channel while the other, on another channel, was still polling, and the
\* other then ended with a different string
C13_Witness ==
    \E r \in Req : \E q \in Req \ {r} :
        /\ req[r].channel_id # req[q].channel_id
        /\ upc[r] = "done" /\ upc[q] = "done"
        /\ calls[r].fetch >= 1 /\ calls[q].fetch >= 2
        /\ Len(posted[r]) = 1 /\ Len(posted[q]) = 1
        /\ posted[r][1].text = Text(<<"answer">>)
        /\ posted[q][1].text = Text(<<"Error: ">> \o TimeoutError)
        /\ posted[r][1].channel = req[r].channel_id
        /\ posted[q][1].channel = req[q].channel_id

\* C14: in one run of call_genie_api the query-result endpoint is called at
\* most once, only when poll returned a COMPLETED message with a non-empty
\* attachment list, and for the first attachment of that list; a run whose
\* poll ended in any other way makes no such call.
C14_FirstAttachmentOnly ==
    \A r \in Req :
        /\ calls[r].attach <= 1
        /\ calls[r].attach = 0 => attachment_id[r] = None
        /\ calls[r].attach = 1 =>
              /\ poll_exit[r] = "return"
              /\ message_data[r].status = "COMPLETED"
              /\ message_data[r].attachments # <<>>
              /\ attachment_id[r] = message_data[r].attachments[1]
        /\ (/\ upc[r] \in {"post", "except", "done", "crashed"}
            /\ \/ poll_exit[r] # "return"
               \/ message_data[r].status # "COMPLETED"
               \/ message_data[r].attachments = <<>>) =>
              calls[r].attach = 0

\* C14 witness: a run ended whose COMPLETED message had two attachments, with
\* one call of the endpoint, for the first of them
C14_Witness ==
    \E r \in Req :
        /\ upc[r] = "done"
        /\ message_data[r].attachments = <<"a1", "a2">>
        /\ calls[r].attach = 1
        /\ attachment_id[r] = "a1"

\* C17: with any number of units at once, every conversation handle is polled
\* by at most one poll loop: a unit's requests to the status endpoint carry
\* the ids of its own start call only, no two units hold or poll the same
\* ids, and a unit runs its loop once (its requests never outnumber the
\* iterations of one loop).
C17_OnePollLoopPerHandle ==
    \A r \in Req :
        /\ polled[r] \subseteq {handle[r]}
        /\ NoHandle \notin polled[r]
        /\ Cardinality(polled[r]) <= 1
        /\ calls[r].fetch > 0 => polled[r] = {handle[r]}
        /\ calls[r].fetch <= attempt[r] + 1
        /\ calls[r].start <= 1
        /\ \A q \in Req \ {r} :
              /\ polled[r] \cap polled[q] = {}
              /\ handle[r] # NoHandle => handle[r] # handle[q]

\* C17 witness: two units are inside their poll loops at once, each on the
\* handle of its own start call
C17_Witness ==
    \E r \in Req : \E q \in Req \ {r} :
        /\ upc[r] = "sleep" /\ upc[q] = "fetch"
        /\ calls[r].fetch >= 1 /\ calls[q].fetch >= 1
        /\ polled[r] = {handle[r]} /\ polled[q] = {handle[q]}
        /\ handle[r] # handle[q]

\* the outcome of a request to the status endpoint is an in-progress status
SawInProgress(o) ==
    o.kind = "json" /\ o.body.status \in
        {"IN_PROGRESS", "PENDING", "FILTERING_CONTEXT", "EXECUTING_QUERY",
         "ASKING_AI", "PENDING_WAREHOUSE"}

\* C18: whatever the outcomes of the status requests, in-progress statuses and
\* transport errors in any order, one poll makes at most max_attempts
\* requests, each in-progress answer and each transport error using up one
\* attempt; the poll ends with Timeout exactly when the request of the last
\* attempt (index max_attempts - 1) saw an in-progress status, and with
\* Exhausted exactly when it saw a transport error.
C18_SharedAttemptBudget ==
    /\ [](\A r \in Req :
             /\ calls[r].fetch <= max_attempts
             /\ attempt[r] < max_attempts
             /\ calls[r].waiting + calls[r].failed <= calls[r].fetch
             /\ poll_exit[r] \in {"none", "timeout", "exhausted"} =>
                   calls[r].waiting + calls[r].failed = calls[r].fetch
             /\ poll_exit[r] \in {"timeout", "exhausted"} =>
                   calls[r].fetch = max_attempts)
    /\ [][\A r \in Req :
            /\ calls'[r].fetch # calls[r].fetch =>
                  /\ calls'[r].fetch = attempt[r] + 1
                  /\ (attempt[r] = max_attempts - 1 /\ response'[r].kind = "transport")
                        <=> poll_exit'[r] = "exhausted"
            /\ (upc[r] = "sleep" /\ upc'[r] # "sleep") =>
                  /\ (attempt[r] = max_attempts - 1 /\ SawInProgress(response[r]))
                        <=> poll_exit'[r] = "timeout"
                  /\ poll_exit'[r] # "timeout" =>
                        /\ attempt'[r] = attempt[r] + 1
                        /\ upc'[r] = "fetch"
            /\ (poll_exit'[r] = "timeout" /\ poll_exit[r] # "timeout") =>
                  upc[r] = "sleep" /\ SawInProgress(response[r])
            /\ (poll_exit'[r] = "exhausted" /\ poll_exit[r] # "exhausted") =>
                  calls'[r].fetch = calls[r].fetch + 1]_vars

\* C18 witness: a poll ended with Timeout after transport errors and
\* in-progress answers that together used up the budget
C18_Witness ==
    \E r \in Req :
        /\ poll_exit[r] = "timeout"
        /\ calls[r].failed >= 2
        /\ calls[r].waiting >= 2
        /\ calls[r].failed + calls[r].waiting = max_attempts
        /\ calls[r].fetch = max_attempts

\* C19: within one unit the calls come in a fixed order: a status request is
\* made only after a start call that gave both a conversation id and a
\* message id, and a start answer lacking either ends the run with an error
\* string and no status request; the query-result call is made only after
\* poll returned; chat_postMessage is called only after call_genie_api
\* returned its string, and no call to the query service follows it.
C19_CallOrder ==
    /\ [](\A r \in Req :
             /\ calls[r].fetch > 0 =>
                   /\ calls[r].start = 1
                   /\ handle[r].conversation_id # None
                   /\ handle[r].message_id # None
             /\ handle[r] # NoHandle =>
                   handle[r].conversation_id # None /\ handle[r].message_id # None
             /\ (calls[r].start = 1 /\ handle[r] = NoHandle) =>
                   /\ calls[r].fetch = 0
                   /\ calls[r].attach = 0
                   /\ upc[r] \in {"post", "except", "done", "crashed"}
                   /\ genie_response[r] \in
                         {Text(<<"Error: Could not start conversation with Genie">>),
                          Text(<<"Error: Invalid response from Genie API">>),
                          Text(<<"Error: ", BadBody>>)}
             /\ calls[r].attach > 0 => (poll_exit[r] = "return" /\ calls[r].fetch > 0)
             /\ posted[r] # <<>> =>
                   /\ calls[r].start = 1
                   /\ genie_response[r] # NoText
                   /\ upc[r] \in {"except", "done", "crashed"})
    /\ [][\A r \in Req :
            /\ posted[r] # <<>> => calls'[r] = calls[r]
            /\ posted'[r] # posted[r] => (calls'[r] = calls[r] /\ upc[r] \in {"post", "except"})
            /\ calls'[r].fetch # calls[r].fetch => (calls[r].attach = 0 /\ calls'[r].attach = 0)
            /\ calls'[r].start # calls[r].start => (calls[r].fetch = 0 /\ calls[r].attach = 0)]_vars

\* C19 witness: a unit ended after start, several status requests, the
\* query-result call and one chat_postMessage
C19_Witness ==
    \E r \in Req :
        /\ upc[r] = "done"
        /\ calls[r].start = 1
        /\ calls[r].fetch >= 2
        /\ calls[r].attach = 1
        /\ Len(posted[r]) = 1
        /\ posted[r][1].text = genie_response[r]

\* C20: every unit delivers at most one message: process_and_post_result
\* calls chat_postMessage once when that call succeeds, a second time, with
\* the error text, only if the first call raised, and never more than twice.
C20_AtMostOneDelivered ==
    \A r \in Req :
        /\ Len(posted[r]) <= 2
        /\ Cardinality({i \in 1..Len(posted[r]) : posted[r][i].ok}) <= 1
        /\ (posted[r] # <<>> /\ posted[r][1].ok) => (Len(posted[r]) = 1 /\ upc[r] = "done")
        /\ Len(posted[r]) = 2 =>
              /\ ~posted[r][1].ok
              /\ posted[r][2].text =
                    Text(<<"Sorry, there was an error processing your request: ",
                           SlackError>>)
              /\ posted[r][2].channel = posted[r][1].channel
        /\ UnitEnded(r) => Len(posted[r]) \in {1, 2}

\* C20 witness: the first chat_postMessage raised and the second one, with
\* the error text, was delivered
C20_Witness ==
    \E r \in Req :
        /\ Len(posted[r]) = 2
        /\ ~posted[r][1].ok
        /\ posted[r][2].ok
        /\ upc[r] = "done"

====
